---- MODULE Spec2Model ----
(***************************************************************************)
(* The Oracle collection back end: the track-result handler, the profile   *)
(* handler and the three tables they work on (divine_words,                *)
(* user_collections, user_statistics).                                     *)
(*                                                                         *)
(* Each handler invocation is a request slot r with a position pc[r]; one  *)
(* action per database round trip (every `await client.from(...)`), the    *)
(* synchronous code between two round trips being part of the later one.   *)
(* Word texts are numbers: 0 is the absent/empty word, 1..n are the words  *)
(* of a catalog of size n, any larger number is a word not in the catalog. *)
(* An authorization header is a number too: NoHeader, BadToken, or the     *)
(* user the token belongs to.                                              *)
(***************************************************************************)
EXTENDS Integers, Sequences, FiniteSets, TLC

\* ---------------------------------------------------------------- bounds
NUsers == 2
NWords == 2
MaxReq == 2
NReq == 2
MaxTotal == 50

\* ------------------------------------------------------- program constants
MantissaBits == 53
ChunkBits == 20

Users == 1..NUsers
Reqs == 1..NReq
NoHeader == -1
BadToken == 0
AuthHeaders == {NoHeader, BadToken} \cup Users
Methods == {"OPTIONS", "POST"}
Types == {"DIVINE", "REALITY", "VOID"}
Scores == {12, 87}
NoWord == 0
UnknownWord == NWords + 1

\* -------------------------------------------- IEEE-754 binary64 arithmetic
\* A positive double is [e, m]: m its MantissaBits bits, most significant
\* first (m[1] = 1), e the binary exponent of m[1]; zero has m = << >>.
RECURSIVE Pow2(_)
Pow2(n) ==
  IF n = 0 THEN 1
  ELSE LET h == Pow2(n \div 2) IN h * h * (IF n % 2 = 1 THEN 2 ELSE 1)

RECURSIVE Pow2Mod(_, _)
Pow2Mod(n, d) ==
  IF n = 0 THEN 1 % d
  ELSE LET h == Pow2Mod(n \div 2, d)
       IN (((h * h) % d) * (IF n % 2 = 1 THEN 2 ELSE 1)) % d

BitLen(n) == CHOOSE w \in 0..30 : Pow2(w) > n /\ (w = 0 \/ Pow2(w - 1) <= n)

IntBits(n, w) == [i \in 1..w |-> (n \div Pow2(w - i)) % 2]

RECURSIVE BitsToInt(_)
BitsToInt(b) ==
  IF Len(b) = 0 THEN 0
  ELSE IF Len(b) = 1 THEN b[1]
  ELSE LET h == Len(b) \div 2
       IN BitsToInt(SubSeq(b, 1, h)) * Pow2(Len(b) - h)
            + BitsToInt(SubSeq(b, h + 1, Len(b)))

F64Zero == [e |-> 0, m |-> <<>>]

\* Round to nearest, ties to even: `up` says the discarded part asks for the
\* next mantissa.
F64Round(e, m, up) ==
  IF ~up THEN [e |-> e, m |-> m]
  ELSE IF \A i \in 1..Len(m) : m[i] = 1
       THEN [e |-> e + 1, m |-> [i \in 1..Len(m) |-> IF i = 1 THEN 1 ELSE 0]]
       ELSE LET j == CHOOSE k \in 1..Len(m) :
                       m[k] = 0 /\ \A i \in (k + 1)..Len(m) : m[i] = 1
            IN [e |-> e,
                m |-> [i \in 1..Len(m) |->
                         IF i < j THEN m[i] ELSE IF i = j THEN 1 ELSE 0]]

RECURSIVE Log2Floor(_, _)
Log2Floor(n, d) ==
  IF n >= d THEN (IF n >= 2 * d THEN 1 + Log2Floor(n, 2 * d) ELSE 0)
  ELSE Log2Floor(2 * n, d) - 1

\* The double nearest to n / d, for integers n >= 0, d > 0.
F64Div(n, d) ==
  IF n = 0 THEN F64Zero
  ELSE LET e == Log2Floor(n, d)
           n0 == IF e < 0 THEN n * Pow2(0 - e) ELSE n
           d0 == IF e > 0 THEN d * Pow2(e) ELSE d
           Rem(k) == ((n0 - d0) * Pow2Mod(k, d0)) % d0
           m == [i \in 1..MantissaBits |->
                   IF i = 1 THEN 1 ELSE (2 * Rem(i - 2)) \div d0]
           r == Rem(MantissaBits - 1)
           up == \/ 2 * r > d0
                 \/ 2 * r = d0 /\ m[MantissaBits] = 1
       IN F64Round(e, m, up)

\* The double nearest to x * k, for a double x and an integer 0 <= k < 2^10.
F64MulInt(x, k) ==
  IF x.m = <<>> \/ k = 0 THEN F64Zero
  ELSE LET a0 == BitsToInt(SubSeq(x.m, MantissaBits - ChunkBits + 1, MantissaBits))
           a1 == BitsToInt(SubSeq(x.m, MantissaBits - 2 * ChunkBits + 1,
                                  MantissaBits - ChunkBits))
           a2 == BitsToInt(SubSeq(x.m, 1, MantissaBits - 2 * ChunkBits))
           p0 == a0 * k
           p1 == a1 * k + p0 \div Pow2(ChunkBits)
           p2 == a2 * k + p1 \div Pow2(ChunkBits)
           p == IntBits(p2, BitLen(p2))
                  \o IntBits(p1 % Pow2(ChunkBits), ChunkBits)
                  \o IntBits(p0 % Pow2(ChunkBits), ChunkBits)
           extra == Len(p) - MantissaBits
           m == SubSeq(p, 1, MantissaBits)
           tail == BitsToInt(SubSeq(p, MantissaBits + 1, Len(p)))
           half == IF extra = 0 THEN 0 ELSE Pow2(extra - 1)
           up == /\ extra > 0
                 /\ \/ tail > half
                    \/ tail = half /\ m[MantissaBits] = 1
       IN F64Round(x.e + extra, m, up)

\* Math.floor of a double 0 <= x < 2^30.
MathFloor(x) ==
  IF x.m = <<>> \/ x.e < 0 THEN 0
  ELSE BitsToInt(SubSeq(x.m, 1, x.e + 1))

\* Math.max of two integers.
MathMax(a, b) == IF a >= b THEN a ELSE b

\* ------------------------------------------------------------- the tables
\* A catalog of n words, the first half SSR, as the seed data lists them;
\* last_found_at DEFAULT now() is the time of the migration, 0.
Catalog(n) ==
  {[id |-> w, word |-> w, rarity |-> IF 2 * w <= n + 1 THEN "SSR" ELSE "SR",
    last_found_at |-> 0] : w \in 1..n}

VARIABLES
  divine_words,      \* the catalog: rows [id, word, rarity, last_found_at]
  user_collections,  \* the ledger: rows [id, user_id, divine_word_id,
                     \*   found_count, first_found_at, updated_at]
  user_statistics,   \* rows [id, user_id, total_spins, total_points,
                     \*   divine_count, reality_count, highest_score, last_spin_at]
  nextId,            \* gen_random_uuid(): the next fresh row id
  clock,             \* new Date(): the time of the latest applied write
  pc,                \* pc[r]: where request r stands in its handler
  req,               \* req[r]: the request as received
  loc,               \* loc[r]: the handler's local constants
  resp,              \* resp[r]: the response sent
  dbOps,             \* dbOps[r]: database calls issued so far by request r
  pre,               \* pre[r]: ledger and statistics when r was received
  hist,              \* hist[u]: the track-result requests of u answered 200
                     \*   (kept under SpecSpins only)
  nreq               \* requests received since the initial state

vars == <<divine_words, user_collections, user_statistics, nextId, clock,
          pc, req, loc, resp, dbOps, pre, hist, nreq>>

\* What a request slot holds before its first request.
NoReq ==
  [endpoint |-> "none", method |-> "none", authHeader |-> NoHeader, user |-> 0,
   bodyOk |-> FALSE, type |-> "", word |-> NoWord, score |-> 0]

NoLoc ==
  [divineWord |-> {}, existing |-> {}, stats |-> {}, collections |-> <<>>,
   ledgerError |-> FALSE, statsError |-> FALSE,
   points |-> 0, divineIncrement |-> 0, realityIncrement |-> 0]

NoResp == [status |-> 0, body |-> [kind |-> "none"]]

NoOps == [reads |-> 0, writes |-> 0]

NoHist == [n |-> 0, points |-> 0, scores |-> {}]

ErrorResponse(status, message) ==
  [status |-> status, body |-> [kind |-> "error", error |-> message]]

Snapshot == [user_collections |-> user_collections, user_statistics |-> user_statistics]

\* No request is between its first and its last database call.
Quiescent == \A r \in Reqs : pc[r] \in {"idle", "done"}

\* The slot the next request takes: the lowest one that is free.
FreeSlot == CHOOSE r \in Reqs : /\ pc[r] \in {"idle", "done"}
                                /\ \A q \in Reqs : pc[q] \in {"idle", "done"} => r <= q

\* .maybeSingle(): the row when exactly one matches, null otherwise.
MaybeSingle(rows) == IF Cardinality(rows) = 1 THEN rows ELSE {}

Row(rows) == CHOOSE x \in rows : TRUE

\* No request has been received.
ReqInit ==
  /\ pc = [r \in Reqs |-> "idle"]
  /\ req = [r \in Reqs |-> NoReq]
  /\ loc = [r \in Reqs |-> NoLoc]
  /\ resp = [r \in Reqs |-> NoResp]
  /\ dbOps = [r \in Reqs |-> NoOps]
  /\ pre = [r \in Reqs |-> [user_collections |-> {}, user_statistics |-> {}]]
  /\ nreq = 0

\* After the migration: the seeded catalog, no ledger entry, no statistics.
Init ==
  /\ divine_words = Catalog(NWords)
  /\ user_collections = {}
  /\ user_statistics = {}
  /\ nextId = 1
  /\ clock = 0
  /\ hist = [u \in Users |-> NoHist]
  /\ ReqInit

\* ------------------------------------------------- the track-result handler
\* Lines 17-56: the handler up to the body. NoResp: the request goes on;
\* otherwise the early response.
TrackGate(method, authHeader, env) ==
  IF method = "OPTIONS" THEN [status |-> 200, body |-> [kind |-> "none"]]
  ELSE IF authHeader = NoHeader THEN ErrorResponse(401, "Missing authorization header")
  ELSE IF ~env THEN ErrorResponse(500, "Server configuration error")
  ELSE IF authHeader \notin Users THEN ErrorResponse(401, "Unauthorized")
  ELSE NoResp

\* req.json(): a body that is no JSON object makes it (or the destructuring)
\* throw; otherwise the three fields, "" and NoWord standing for a falsy one.
Bodies ==
  {[ok |-> FALSE, type |-> "", word |-> NoWord, score |-> 0]}
    \cup [ok : {TRUE}, type : Types \cup {""}, word : NoWord..UnknownWord, score : Scores]

\* Variant of points: the REALITY branch left out.
pointsNoReality(type) == IF type = "DIVINE" THEN 20 ELSE 1

\* Lines 117-119.
points(type) == IF type = "DIVINE" THEN 20 ELSE IF type = "REALITY" THEN 5 ELSE 1

divineIncrement(type) == IF type = "DIVINE" THEN 1 ELSE 0

realityIncrement(type) == IF type = "REALITY" THEN 1 ELSE 0

\* Variant of MissingFields: && written for ||.
MissingFieldsBoth(type, word) == type = "" /\ word = NoWord

\* Line 61: !type || !word.
MissingFields(type, word) == type = "" \/ word = NoWord

\* Variant of NotFound: the type compared with "DIVINE" instead of "VOID".
NotFoundDivineOnly(divineWord, type) == divineWord = {} /\ type = "DIVINE"

\* Line 75: !divineWord && type !== "VOID".
NotFound(divineWord, type) == divineWord = {} /\ type # "VOID"

\* The request is answered: the early returns and the catch block.
Answer(r, request, response) ==
  /\ pc' = [pc EXCEPT ![r] = "done"]
  /\ req' = [req EXCEPT ![r] = request]
  /\ resp' = [resp EXCEPT ![r] = response]

Received(r) ==
  /\ loc' = [loc EXCEPT ![r] = NoLoc]
  /\ dbOps' = [dbOps EXCEPT ![r] = NoOps]
  /\ pre' = [pre EXCEPT ![r] = Snapshot]
  /\ nreq' = nreq + 1
  /\ UNCHANGED <<divine_words, user_collections, user_statistics, nextId, clock,
                 hist>>

\* Lines 16-66: OPTIONS, the authorization gate, the body and its validation.
TrackReceive(r) ==
  /\ pc[r] \in {"idle", "done"}
  /\ r = FreeSlot
  /\ nreq < MaxReq
  /\ Received(r)
  /\ \E method \in Methods, authHeader \in AuthHeaders, env \in BOOLEAN :
       LET gate == TrackGate(method, authHeader, env)
           head == [NoReq EXCEPT !.endpoint = "track", !.method = method,
                                 !.authHeader = authHeader]
       IN IF gate # NoResp
          THEN Answer(r, head, gate)
          ELSE \E body \in Bodies :
                 LET request == [head EXCEPT !.user = authHeader, !.bodyOk = body.ok,
                                             !.type = body.type, !.word = body.word,
                                             !.score = body.score]
                 IN IF ~body.ok
                    THEN Answer(r, request, ErrorResponse(500, "Internal server error"))
                    ELSE IF MissingFields(body.type, body.word)
                    THEN Answer(r, request, ErrorResponse(400, "Missing required fields"))
                    ELSE /\ pc' = [pc EXCEPT ![r] = "lookupWord"]
                         /\ req' = [req EXCEPT ![r] = request]
                         /\ resp' = [resp EXCEPT ![r] = NoResp]

\* Lines 68-80: the catalog lookup and the 404.
LookupWord(r) ==
  /\ pc[r] = "lookupWord"
  /\ LET divineWord == MaybeSingle({w \in divine_words : w.word = req[r].word})
     IN /\ loc' = [loc EXCEPT ![r].divineWord = divineWord]
        /\ dbOps' = [dbOps EXCEPT ![r].reads = @ + 1]
        /\ IF NotFound(divineWord, req[r].type)
           THEN /\ pc' = [pc EXCEPT ![r] = "done"]
                /\ resp' = [resp EXCEPT ![r] = ErrorResponse(404, "Divine word not found")]
           ELSE /\ pc' = [pc EXCEPT ![r] =
                            IF divineWord # {} THEN "lookupLedger" ELSE "lookupStats"]
                /\ UNCHANGED resp
  /\ UNCHANGED <<divine_words, user_collections, user_statistics, nextId, clock,
                 req, pre, hist, nreq>>

\* Lines 83-89: the user's ledger entry for the word.
LookupLedger(r) ==
  /\ pc[r] = "lookupLedger"
  /\ LET existing == MaybeSingle({c \in user_collections :
                                    /\ c.user_id = req[r].user
                                    /\ c.divine_word_id = Row(loc[r].divineWord).id})
     IN loc' = [loc EXCEPT ![r].existing = existing]
  /\ dbOps' = [dbOps EXCEPT ![r].reads = @ + 1]
  /\ pc' = [pc EXCEPT ![r] = "writeLedger"]
  /\ UNCHANGED <<divine_words, user_collections, user_statistics, nextId, clock,
                 req, resp, pre, hist, nreq>>

\* Variant of UpdateCollection: the increment done by the database on the
\* row as it is (SET found_count = found_count + 1).
UpdateCollectionInPlace(existing, now) ==
  {IF c.id = existing.id
     THEN [c EXCEPT !.found_count = c.found_count + 1, !.updated_at = now]
     ELSE c : c \in user_collections}

\* UPDATE user_collections ... WHERE id = existing.id, with the values the
\* handler computed from the row it read.
UpdateCollection(existing, now) ==
  {IF c.id = existing.id
     THEN [c EXCEPT !.found_count = existing.found_count + 1, !.updated_at = now]
     ELSE c : c \in user_collections}

\* INSERT INTO user_collections: the new row.
NewCollection(id, user, divineWord, now) ==
  [id |-> id, user_id |-> user, divine_word_id |-> divineWord.id,
   found_count |-> 1, first_found_at |-> now, updated_at |-> now]

\* UNIQUE(user_id, divine_word_id) lets the row in.
CollectionInsertable(row) ==
  \A c \in user_collections :
    ~(c.user_id = row.user_id /\ c.divine_word_id = row.divine_word_id)

\* Lines 91-107: the ledger write. The database applies the statement or
\* answers with an error; the handler awaits the result and does not look
\* at it.
LedgerStatement(r) ==
  /\ pc[r] = "writeLedger"
  /\ \E up \in BOOLEAN :
       LET now == clock + 1
           row == NewCollection(nextId, req[r].user, Row(loc[r].divineWord), now)
           applied == IF loc[r].existing # {} THEN up
                      ELSE up /\ CollectionInsertable(row)
       IN /\ user_collections' =
               IF ~applied THEN user_collections
               ELSE IF loc[r].existing # {}
                    THEN UpdateCollection(Row(loc[r].existing), now)
                    ELSE user_collections \cup {row}
          /\ nextId' = IF applied /\ loc[r].existing = {} THEN nextId + 1 ELSE nextId
          /\ loc' = [loc EXCEPT ![r].ledgerError = ~applied]
          /\ clock' = IF applied THEN now ELSE clock
  /\ dbOps' = [dbOps EXCEPT ![r].writes = @ + 1]
  /\ pc' = [pc EXCEPT ![r] = "lookupStats"]
  /\ UNCHANGED <<user_statistics, req, resp, pre, hist, nreq>>

\* Variant of WriteLedger: the find also stamps the catalog word's
\* last_found_at.
WriteLedgerStampsWord(r) ==
  /\ LedgerStatement(r)
  /\ divine_words' = {IF w.id = Row(loc[r].divineWord).id
                         THEN [w EXCEPT !.last_found_at = clock + 1]
                         ELSE w : w \in divine_words}

\* The handler writes user_collections only: the catalog stays as it is.
WriteLedger(r) == LedgerStatement(r) /\ UNCHANGED divine_words

\* Variant of LookupStats: the select without .eq("user_id", user.id).
LookupStatsAnyUser(r) ==
  /\ pc[r] = "lookupStats"
  /\ LET stats == MaybeSingle(user_statistics)
     IN loc' = [loc EXCEPT ![r].stats = stats,
                           ![r].points = points(req[r].type),
                           ![r].divineIncrement = divineIncrement(req[r].type),
                           ![r].realityIncrement = realityIncrement(req[r].type)]
  /\ dbOps' = [dbOps EXCEPT ![r].reads = @ + 1]
  /\ pc' = [pc EXCEPT ![r] = "writeStats"]
  /\ UNCHANGED <<divine_words, user_collections, user_statistics, nextId, clock,
                 req, resp, pre, hist, nreq>>

\* Lines 110-119: the user's statistics row, and the spin's values.
LookupStats(r) ==
  /\ pc[r] = "lookupStats"
  /\ LET stats == MaybeSingle({s \in user_statistics : s.user_id = req[r].user})
     IN loc' = [loc EXCEPT ![r].stats = stats,
                           ![r].points = points(req[r].type),
                           ![r].divineIncrement = divineIncrement(req[r].type),
                           ![r].realityIncrement = realityIncrement(req[r].type)]
  /\ dbOps' = [dbOps EXCEPT ![r].reads = @ + 1]
  /\ pc' = [pc EXCEPT ![r] = "writeStats"]
  /\ UNCHANGED <<divine_words, user_collections, user_statistics, nextId, clock,
                 req, resp, pre, hist, nreq>>

\* Variant of UpdateStatistics: the points added by the database to the row
\* as it is (SET total_points = total_points + points), the other columns
\* set from the row read.
UpdateStatisticsPointsInPlace(stats, l, score, now) ==
  {IF s.id = stats.id
     THEN [s EXCEPT !.total_spins = stats.total_spins + 1,
                    !.total_points = s.total_points + l.points,
                    !.divine_count = stats.divine_count + l.divineIncrement,
                    !.reality_count = stats.reality_count + l.realityIncrement,
                    !.highest_score = MathMax(stats.highest_score, score),
                    !.last_spin_at = now]
     ELSE s : s \in user_statistics}

\* UPDATE user_statistics ... WHERE id = stats.id.
UpdateStatistics(stats, l, score, now) ==
  {IF s.id = stats.id
     THEN [s EXCEPT !.total_spins = stats.total_spins + 1,
                    !.total_points = stats.total_points + l.points,
                    !.divine_count = stats.divine_count + l.divineIncrement,
                    !.reality_count = stats.reality_count + l.realityIncrement,
                    !.highest_score = MathMax(stats.highest_score, score),
                    !.last_spin_at = now]
     ELSE s : s \in user_statistics}

\* INSERT INTO user_statistics: the new row.
NewStatistics(id, user, l, score, now) ==
  [id |-> id, user_id |-> user, total_spins |-> 1, total_points |-> l.points,
   divine_count |-> l.divineIncrement, reality_count |-> l.realityIncrement,
   highest_score |-> score, last_spin_at |-> now]

\* user_id ... UNIQUE lets the row in.
StatisticsInsertable(row) == \A s \in user_statistics : s.user_id # row.user_id

\* The record of the 200 responses of a user's track-result requests.
Recorded(h, l, score) ==
  [n |-> h.n + 1, points |-> h.points + l.points, scores |-> h.scores \cup {score}]

\* Lines 121-154: the statistics write and the success response.
Write200(r) ==
  /\ pc[r] = "writeStats"
  /\ \E up \in BOOLEAN :
       LET now == clock + 1
           row == NewStatistics(nextId, req[r].user, loc[r], req[r].score, now)
           applied == IF loc[r].stats # {} THEN up
                      ELSE up /\ StatisticsInsertable(row)
       IN /\ user_statistics' =
               IF ~applied THEN user_statistics
               ELSE IF loc[r].stats # {}
                    THEN UpdateStatistics(Row(loc[r].stats), loc[r], req[r].score, now)
                    ELSE user_statistics \cup {row}
          /\ nextId' = IF applied /\ loc[r].stats = {} THEN nextId + 1 ELSE nextId
          /\ loc' = [loc EXCEPT ![r].statsError = ~applied]
          /\ clock' = IF applied THEN now ELSE clock
  /\ dbOps' = [dbOps EXCEPT ![r].writes = @ + 1]
  /\ pc' = [pc EXCEPT ![r] = "done"]
  /\ resp' = [resp EXCEPT ![r] =
                [status |-> 200,
                 body |-> [kind |-> "success",
                           message |-> "Oracle result tracked successfully"]]]
  /\ UNCHANGED <<divine_words, user_collections, req, pre, nreq>>

WriteStats(r) == Write200(r) /\ UNCHANGED hist

\* The same step, the 200 response noted in the user's history.
WriteStatsRecorded(r) ==
  /\ Write200(r)
  /\ hist' = [hist EXCEPT ![req[r].user] = Recorded(@, loc[r], req[r].score)]

\* ------------------------------------------------------ the profile handler
\* Variant of ProfileGate: the configuration checked before the header.
ProfileGateConfigFirst(method, authHeader, env) ==
  IF method = "OPTIONS" THEN [status |-> 200, body |-> [kind |-> "none"]]
  ELSE IF ~env THEN ErrorResponse(500, "Server configuration error")
  ELSE IF authHeader = NoHeader THEN ErrorResponse(401, "Missing authorization header")
  ELSE IF authHeader \notin Users THEN ErrorResponse(401, "Unauthorized")
  ELSE NoResp

\* Lines 174-213: the profile handler up to its first database call.
ProfileGate(method, authHeader, env) ==
  IF method = "OPTIONS" THEN [status |-> 200, body |-> [kind |-> "none"]]
  ELSE IF authHeader = NoHeader THEN ErrorResponse(401, "Missing authorization header")
  ELSE IF ~env THEN ErrorResponse(500, "Server configuration error")
  ELSE IF authHeader \notin Users THEN ErrorResponse(401, "Unauthorized")
  ELSE NoResp

ProfileReceive(r) ==
  /\ pc[r] \in {"idle", "done"}
  /\ r = FreeSlot
  /\ nreq < MaxReq
  /\ Received(r)
  /\ \E method \in Methods, authHeader \in AuthHeaders, env \in BOOLEAN :
       LET gate == ProfileGate(method, authHeader, env)
           head == [NoReq EXCEPT !.endpoint = "profile", !.method = method,
                                 !.authHeader = authHeader]
       IN IF gate # NoResp
          THEN Answer(r, head, gate)
          ELSE /\ pc' = [pc EXCEPT ![r] = "profileStats"]
               /\ req' = [req EXCEPT ![r] = [head EXCEPT !.user = authHeader]]
               /\ resp' = [resp EXCEPT ![r] = NoResp]

\* Variant of ProfileStats: the zeroed defaults stored when the user has no
\* statistics row.
ProfileStatsStoresDefaults(r) ==
  /\ pc[r] = "profileStats"
  /\ LET stats == MaybeSingle({s \in user_statistics : s.user_id = req[r].user})
         zeroed == [id |-> nextId, user_id |-> req[r].user, total_spins |-> 0,
                    total_points |-> 0, divine_count |-> 0, reality_count |-> 0,
                    highest_score |-> 0, last_spin_at |-> 0]
     IN /\ loc' = [loc EXCEPT ![r].stats = IF stats = {} THEN {zeroed} ELSE stats]
        /\ user_statistics' = IF stats = {} THEN user_statistics \cup {zeroed}
                               ELSE user_statistics
        /\ nextId' = IF stats = {} THEN nextId + 1 ELSE nextId
  /\ dbOps' = [dbOps EXCEPT ![r].reads = @ + 1]
  /\ pc' = [pc EXCEPT ![r] = "profileCollections"]
  /\ UNCHANGED <<divine_words, user_collections, clock, req, resp, pre, hist, nreq>>

\* Lines 215-220: the user's statistics row.
ProfileStats(r) ==
  /\ pc[r] = "profileStats"
  /\ LET stats == MaybeSingle({s \in user_statistics : s.user_id = req[r].user})
     IN loc' = [loc EXCEPT ![r].stats = stats]
  /\ dbOps' = [dbOps EXCEPT ![r].reads = @ + 1]
  /\ pc' = [pc EXCEPT ![r] = "profileCollections"]
  /\ UNCHANGED <<divine_words, user_collections, user_statistics, nextId, clock,
                 req, resp, pre, hist, nreq>>

\* A ledger row with its catalog word embedded: divine_words (id, word, rarity).
Joined(c) ==
  [id |-> c.id, found_count |-> c.found_count, first_found_at |-> c.first_found_at,
   updated_at |-> c.updated_at,
   divine_words |-> LET w == CHOOSE x \in divine_words : x.id = c.divine_word_id
                    IN [id |-> w.id, word |-> w.word, rarity |-> w.rarity]]

\* .order("updated_at", {ascending: false}): every order of the rows with
\* later updates first; rows updated at the same time come in any order.
OrderedByUpdatedAtDesc(rows) ==
  LET n == Cardinality(rows)
      before == [x \in rows |-> Cardinality({y \in rows : y.updated_at > x.updated_at})]
      ties == [x \in rows |-> Cardinality({y \in rows : y.updated_at = x.updated_at})]
  IN IF \A x \in rows : ties[x] = 1
     THEN {[i \in 1..n |-> CHOOSE x \in rows : before[x] = i - 1]}
     ELSE {f \in [1..n -> rows] :
             /\ \A i, j \in 1..n : i # j => f[i] # f[j]
             /\ \A i \in 1..n : before[f[i]] < i /\ i <= before[f[i]] + ties[f[i]]}

\* Lines 222-237: the user's ledger entries, joined and ordered.
ProfileCollections(r) ==
  /\ pc[r] = "profileCollections"
  /\ \E collections \in OrderedByUpdatedAtDesc(
                          {Joined(c) : c \in {x \in user_collections :
                                                x.user_id = req[r].user}}) :
       loc' = [loc EXCEPT ![r].collections = collections]
  /\ dbOps' = [dbOps EXCEPT ![r].reads = @ + 1]
  /\ pc' = [pc EXCEPT ![r] = "profileWords"]
  /\ UNCHANGED <<divine_words, user_collections, user_statistics, nextId, clock,
                 req, resp, pre, hist, nreq>>

\* Variant of completionPercent: the two counts taken in the other order.
completionPercentSwapped(collectedWords, totalWords) ==
  IF collectedWords > 0
    THEN MathFloor(F64MulInt(F64Div(totalWords, collectedWords), 100))
    ELSE 0

\* Line 246: Math.floor((collectedWords / totalWords) * 100), in doubles.
completionPercent(collectedWords, totalWords) ==
  IF totalWords > 0
    THEN MathFloor(F64MulInt(F64Div(collectedWords, totalWords), 100))
    ELSE 0

\* Variant of RarityCount: both filters written with "SSR".
RarityCountSsr(collections, rarity) ==
  Cardinality({i \in 1..Len(collections) : collections[i].divine_words.rarity = "SSR"})

\* collections.filter((c) => c.divine_words.rarity === rarity).length
RarityCount(collections, rarity) ==
  Cardinality({i \in 1..Len(collections) : collections[i].divine_words.rarity = rarity})

\* Lines 254-261: stats || the zeroed defaults (last_spin_at: null is 0).
StatsOrDefault(stats) ==
  IF stats # {} THEN Row(stats)
  ELSE [total_spins |-> 0, total_points |-> 0, divine_count |-> 0,
        reality_count |-> 0, highest_score |-> 0, last_spin_at |-> 0]

\* Lines 244-275: the response body.
ProfileBody(stats, collections, allWords) ==
  LET totalWords == Cardinality(allWords)
      collectedWords == Len(collections)
  IN [kind |-> "profile",
      stats |-> StatsOrDefault(stats),
      collections |-> [total |-> collectedWords,
                       ssr |-> RarityCount(collections, "SSR"),
                       sr |-> RarityCount(collections, "SR"),
                       items |-> collections],
      completion |-> [percent |-> completionPercent(collectedWords, totalWords),
                      collected |-> collectedWords,
                      total |-> totalWords]]

\* Lines 239-275: the catalog read and the response.
ProfileWords(r) ==
  /\ pc[r] = "profileWords"
  /\ dbOps' = [dbOps EXCEPT ![r].reads = @ + 1]
  /\ pc' = [pc EXCEPT ![r] = "done"]
  /\ resp' = [resp EXCEPT ![r] =
                [status |-> 200,
                 body |-> ProfileBody(loc[r].stats, loc[r].collections, divine_words)]]
  /\ UNCHANGED <<divine_words, user_collections, user_statistics, nextId, clock,
                 req, loc, pre, hist, nreq>>

\* ---------------------------------------------------------- specifications
\* Requests handled one after another: a request is received only when no
\* other is in progress.
Next ==
  \E r \in Reqs :
    \/ Quiescent /\ TrackReceive(r)
    \/ Quiescent /\ ProfileReceive(r)
    \/ LookupWord(r)
    \/ LookupLedger(r)
    \/ WriteLedger(r)
    \/ LookupStats(r)
    \/ WriteStats(r)
    \/ ProfileStats(r)
    \/ ProfileCollections(r)
    \/ ProfileWords(r)

Spec == Init /\ [][Next]_vars

\* The same requests, one after another, with the history of the 200
\* responses of the track-result handler kept.
NextSpins ==
  \E r \in Reqs :
    \/ Quiescent /\ TrackReceive(r)
    \/ Quiescent /\ ProfileReceive(r)
    \/ LookupWord(r)
    \/ LookupLedger(r)
    \/ WriteLedger(r)
    \/ LookupStats(r)
    \/ WriteStatsRecorded(r)
    \/ ProfileStats(r)
    \/ ProfileCollections(r)
    \/ ProfileWords(r)

SpecSpins == Init /\ [][NextSpins]_vars

\* The tables as user 1 leaves them by recording `collected` DIVINE spins
\* of score 87, each of another catalog word, one after another with no
\* failed write: spin w writes the ledger at time 2w - 1 and the statistics
\* at time 2w; the first spin inserts the statistics row (id 2).
Collected(collected) ==
  {[id |-> IF w = 1 THEN 1 ELSE w + 1, user_id |-> 1, divine_word_id |-> w,
    found_count |-> 1, first_found_at |-> 2 * w - 1, updated_at |-> 2 * w - 1] :
     w \in 1..collected}

Spun(collected) ==
  IF collected = 0 THEN {}
  ELSE {[id |-> 2, user_id |-> 1, total_spins |-> collected,
         total_points |-> points("DIVINE") * collected, divine_count |-> collected,
         reality_count |-> 0, highest_score |-> 87, last_spin_at |-> 2 * collected]}

InitPercent ==
  /\ \E total \in 0..MaxTotal :
       \E collected \in 0..total :
         /\ divine_words = Catalog(total)
         /\ user_collections = Collected(collected)
         /\ user_statistics = Spun(collected)
         /\ nextId = IF collected = 0 THEN 1 ELSE collected + 2
         /\ clock = 2 * collected
         /\ hist = [u \in Users |-> NoHist]
  /\ ReqInit

\* The profile handler alone, over catalogs and ledgers of every size.
NextPercent ==
  \E r \in Reqs :
    \/ Quiescent /\ ProfileReceive(r)
    \/ ProfileStats(r)
    \/ ProfileCollections(r)
    \/ ProfileWords(r)

SpecPercent == InitPercent /\ [][NextPercent]_vars

\* The tables as user 1 leaves them by recording one DIVINE spin of score 12
\* for catalog word 1 with no failed write: the ledger entry (id 1) written
\* at time 1, the statistics row (id 2) at time 2.
OneSpinLedger == {NewCollection(1, 1, [id |-> 1], 1)}

OneSpinStatistics ==
  {NewStatistics(2, 1, [points |-> points("DIVINE"),
                        divineIncrement |-> divineIncrement("DIVINE"),
                        realityIncrement |-> realityIncrement("DIVINE")], 12, 2)}

\* After the migration, or after that first spin of user 1.
InitOverlap ==
  /\ divine_words = Catalog(NWords)
  /\ \E spun \in BOOLEAN :
       /\ user_collections = IF spun THEN OneSpinLedger ELSE {}
       /\ user_statistics = IF spun THEN OneSpinStatistics ELSE {}
       /\ nextId = IF spun THEN 3 ELSE 1
       /\ clock = IF spun THEN 2 ELSE 0
  /\ hist = [u \in Users |-> NoHist]
  /\ ReqInit

\* Each invocation runs on its own: a request is received whenever a slot is
\* free, and the database calls of the requests in progress interleave.
NextOverlap ==
  \E r \in Reqs :
    \/ TrackReceive(r)
    \/ ProfileReceive(r)
    \/ LookupWord(r)
    \/ LookupLedger(r)
    \/ WriteLedger(r)
    \/ LookupStats(r)
    \/ WriteStats(r)
    \/ ProfileStats(r)
    \/ ProfileCollections(r)
    \/ ProfileWords(r)

SpecOverlap == InitOverlap /\ [][NextOverlap]_vars

\* ------------------------------------------------------------ the claims
\* Request r has been answered by the named handler.
Answered(r, endpoint) == pc[r] = "done" /\ req[r].endpoint = endpoint

\* Request r is a track-result request that passed the authorization gate
\* and the body validation.
Validated(r) ==
  /\ req[r].endpoint = "track"
  /\ req[r].user \in Users
  /\ req[r].bodyOk
  /\ req[r].type # "" /\ req[r].word # NoWord

InCatalog(word) == \E w \in divine_words : w.word = word

\* The tables are as they were when request r was received.
Untouched(r) ==
  /\ user_collections = pre[r].user_collections
  /\ user_statistics = pre[r].user_statistics

SetMax(S) == CHOOSE x \in S : \A y \in S : y <= x

\* C1: after N >= 1 track-result requests of a user that each returned 200,
\* handled one after another, the user's statistics row has total_spins = N,
\* total_points = the sum of the N point values and highest_score = the
\* maximum of the N scores.
C1_StatisticsSumUp ==
  \A u \in Users :
    (Quiescent /\ hist[u].n >= 1) =>
      \E s \in user_statistics :
        /\ s.user_id = u
        /\ s.total_spins = hist[u].n
        /\ s.total_points = hist[u].points
        /\ s.highest_score = SetMax(hist[u].scores)

\* C2: a recorded spin (200) for a catalog word the user already has a
\* ledger entry for increments that entry's found_count by exactly 1 and
\* leaves its first_found_at unchanged.
C2_RepeatFindIncrements ==
  \A r \in Reqs :
    (Answered(r, "track") /\ resp[r].status = 200 /\ InCatalog(req[r].word)) =>
      \A e \in pre[r].user_collections :
        (e.user_id = req[r].user
           /\ \E w \in divine_words : w.word = req[r].word /\ w.id = e.divine_word_id) =>
          \E c \in user_collections :
            /\ c.id = e.id
            /\ c.found_count = e.found_count + 1
            /\ c.first_found_at = e.first_found_at

\* C3: a validated track-result request whose type is not VOID and whose
\* word is not in the catalog goes no further than the catalog lookup, is
\* answered 404, and leaves every statistics row and ledger entry as it was.
C3_UnknownWordIs404 ==
  \A r \in Reqs :
    (pc[r] # "idle" /\ Validated(r) /\ req[r].type # "VOID" /\ ~InCatalog(req[r].word)) =>
      /\ pc[r] \in {"lookupWord", "done"}
      /\ Untouched(r)
      /\ pc[r] = "done" => resp[r].status = 404 /\ dbOps[r].writes = 0

C3_Witness ==
  \E r \in Reqs :
    /\ Answered(r, "track") /\ Validated(r)
    /\ req[r].type = "DIVINE" /\ req[r].word = UnknownWord
    /\ resp[r].status = 404
    /\ \E s \in pre[r].user_statistics : s.user_id = req[r].user

\* C4: a track-result request with type VOID and a word not in the catalog
\* is answered 200, adds one spin worth 1 point to the user's statistics
\* (divine_count and reality_count unchanged) and touches no ledger entry.
C4_VoidUnknownCountsOneSpin ==
  \A r \in Reqs :
    (Answered(r, "track") /\ Validated(r) /\ req[r].type = "VOID"
       /\ ~InCatalog(req[r].word)) =>
      /\ resp[r].status = 200
      /\ user_collections = pre[r].user_collections
      /\ LET before == {s \in pre[r].user_statistics : s.user_id = req[r].user}
             old == IF before = {}
                      THEN [total_spins |-> 0, total_points |-> 0,
                            divine_count |-> 0, reality_count |-> 0]
                      ELSE Row(before)
         IN \E s \in user_statistics :
              /\ s.user_id = req[r].user
              /\ s.total_spins = old.total_spins + 1
              /\ s.total_points = old.total_points + 1
              /\ s.divine_count = old.divine_count
              /\ s.reality_count = old.reality_count

\* C5 as stated: every request without an Authorization header, whatever
\* its method, is answered 401 by both endpoints, with no database call.
C5_NoHeaderAlways401 ==
  \A r \in Reqs :
    (pc[r] = "done" /\ req[r].authHeader = NoHeader) =>
      resp[r].status = 401 /\ dbOps[r] = NoOps

\* C5 amended: a request without an Authorization header is answered at
\* once and without any database call, by both endpoints: 200 when its
\* method is OPTIONS (the preflight), 401 for every other method.
C5_NoHeader401UnlessOptions ==
  \A r \in Reqs :
    (pc[r] # "idle" /\ req[r].authHeader = NoHeader) =>
      /\ pc[r] = "done"
      /\ dbOps[r] = NoOps
      /\ Untouched(r)
      /\ resp[r].status = IF req[r].method = "OPTIONS" THEN 200 ELSE 401

C5_Witness ==
  \E r \in Reqs :
    /\ Answered(r, "profile")
    /\ req[r].authHeader = NoHeader /\ req[r].method = "POST"
    /\ resp[r].status = 401
    /\ user_statistics # {}

\* C6: the points and the tier increments of a spin depend only on its type:
\* DIVINE 20, 1, 0; REALITY 5, 0, 1; VOID 1, 0, 0.
C6_PointsByType ==
  \A r \in Reqs :
    (pc[r] = "writeStats" \/ (Answered(r, "track") /\ resp[r].status = 200)) =>
      LET got == <<loc[r].points, loc[r].divineIncrement, loc[r].realityIncrement>>
      IN /\ req[r].type = "DIVINE" => got = <<20, 1, 0>>
         /\ req[r].type = "REALITY" => got = <<5, 0, 1>>
         /\ req[r].type = "VOID" => got = <<1, 0, 0>>

C6_Witness ==
  \E r \in Reqs :
    /\ Answered(r, "track") /\ resp[r].status = 200
    /\ req[r].type = "REALITY" /\ loc[r].points = 5
    /\ \E s \in user_statistics : s.user_id = req[r].user /\ s.reality_count = 1

\* C7: when a user with no statistics row and no ledger entry records a spin
\* (200) for a catalog word, a ledger entry with found_count = 1 exists and a
\* statistics row with total_spins = 1, the spin's points and increments and
\* highest_score = the submitted score.
C7_FirstSpinSeedsRows ==
  \A r \in Reqs :
    (/\ Answered(r, "track") /\ resp[r].status = 200 /\ InCatalog(req[r].word)
     /\ \A s \in pre[r].user_statistics : s.user_id # req[r].user
     /\ \A c \in pre[r].user_collections : c.user_id # req[r].user) =>
      /\ \E c \in user_collections :
           /\ c.user_id = req[r].user
           /\ \E w \in divine_words : w.word = req[r].word /\ w.id = c.divine_word_id
           /\ c.found_count = 1
      /\ \E s \in user_statistics :
           /\ s.user_id = req[r].user
           /\ s.total_spins = 1
           /\ s.total_points = points(req[r].type)
           /\ s.divine_count = divineIncrement(req[r].type)
           /\ s.reality_count = realityIncrement(req[r].type)
           /\ s.highest_score = req[r].score

\* C8: the profile response's completion.percent is floor(100 * collected /
\* total) for the user's number of ledger entries and every catalog size
\* total > 0, and 0 with status 200 when the catalog is empty.
C8_PercentIsExactFloor ==
  \A r \in Reqs :
    (Answered(r, "profile") /\ req[r].user \in Users) =>
      LET collected == Cardinality({c \in user_collections : c.user_id = req[r].user})
          total == Cardinality(divine_words)
      IN /\ resp[r].status = 200
         /\ resp[r].body.completion.percent =
              IF total > 0 THEN (100 * collected) \div total ELSE 0

\* C9: when a write of the track-result handler fails, the request is
\* answered 500, never 200; and when the statistics write fails after the
\* ledger write succeeded, the ledger change stays in place.
C9_WriteFailureIs500 ==
  \A r \in Reqs :
    Answered(r, "track") =>
      /\ (loc[r].ledgerError \/ loc[r].statsError) => resp[r].status = 500
      /\ (loc[r].statsError /\ ~loc[r].ledgerError /\ loc[r].divineWord # {}) =>
           \E c \in user_collections :
             /\ c.user_id = req[r].user
             /\ c.divine_word_id = Row(loc[r].divineWord).id
             /\ c \notin pre[r].user_collections

OneRowPerKey ==
  /\ \A c, d \in user_collections :
       (c.user_id = d.user_id /\ c.divine_word_id = d.divine_word_id) => c = d
  /\ \A s, t \in user_statistics : s.user_id = t.user_id => s = t

\* C11: under any interleaving of track-result requests there is at most one
\* ledger entry per (user, word) pair and at most one statistics row per
\* user, and a user one of whose spins was answered as recorded (200) has a
\* statistics row.
C11_OneRowPerKeyOnceRecorded ==
  /\ OneRowPerKey
  /\ \A r \in Reqs :
       (Answered(r, "track") /\ Validated(r) /\ resp[r].status = 200) =>
         \E s \in user_statistics : s.user_id = req[r].user

\* C12: in every step of every execution, overlapping requests included, no
\* statistics row's total_spins, total_points, divine_count, reality_count
\* or highest_score decreases and no ledger entry's found_count decreases.
C12_CountersNeverDecrease ==
  [][/\ \A s \in user_statistics :
          \E t \in user_statistics' :
            /\ t.id = s.id
            /\ t.total_spins >= s.total_spins
            /\ t.total_points >= s.total_points
            /\ t.divine_count >= s.divine_count
            /\ t.reality_count >= s.reality_count
            /\ t.highest_score >= s.highest_score
     /\ \A c \in user_collections :
          \E d \in user_collections' :
            d.id = c.id /\ d.found_count >= c.found_count]_vars

\* C13: a profile request, authenticated or not, leaves the catalog, every
\* ledger entry and every statistics row as they were when it was received
\* and issues no write; for a user with no statistics row the zeroed defaults
\* are in the response and no row is stored.
C13_ProfileIsReadOnly ==
  \A r \in Reqs :
    (pc[r] # "idle" /\ req[r].endpoint = "profile") =>
      /\ Untouched(r)
      /\ divine_words = Catalog(NWords)
      /\ dbOps[r].writes = 0
      /\ (/\ pc[r] = "done" /\ resp[r].status = 200 /\ req[r].method # "OPTIONS"
          /\ \A s \in pre[r].user_statistics : s.user_id # req[r].user) =>
           /\ resp[r].body.stats.total_spins = 0
           /\ resp[r].body.stats.total_points = 0
           /\ \A s \in user_statistics : s.user_id # req[r].user

C13_Witness ==
  \E r \in Reqs :
    /\ Answered(r, "profile") /\ resp[r].status = 200 /\ req[r].method = "POST"
    /\ \A s \in user_statistics : s.user_id # req[r].user
    /\ resp[r].body.stats.total_spins = 0
    /\ user_statistics # {}

\* Requests r1 and r2 are two recorded spins (200, both writes applied) of
\* one user for one catalog word that read the same ledger entry and the
\* same statistics row, and no other request has been received.
ReadSameRows(r1, r2) ==
  /\ r1 # r2 /\ nreq = 2
  /\ Answered(r1, "track") /\ resp[r1].status = 200
  /\ Answered(r2, "track") /\ resp[r2].status = 200
  /\ req[r1].user = req[r2].user
  /\ req[r1].word = req[r2].word /\ InCatalog(req[r1].word)
  /\ loc[r1].existing # {} /\ loc[r1].existing = loc[r2].existing
  /\ loc[r1].stats # {} /\ loc[r1].stats = loc[r2].stats
  /\ ~loc[r1].ledgerError /\ ~loc[r1].statsError
  /\ ~loc[r2].ledgerError /\ ~loc[r2].statsError

\* The rows two such requests read have grown by 1 only.
GrownByOne(r) ==
  /\ \E c \in user_collections :
       /\ c.id = Row(loc[r].existing).id
       /\ c.found_count = Row(loc[r].existing).found_count + 1
  /\ \E s \in user_statistics :
       /\ s.id = Row(loc[r].stats).id
       /\ s.total_spins = Row(loc[r].stats).total_spins + 1

\* C14: lost updates: when two overlapping track-result requests of one user
\* for one catalog word both read the same rows before either writes and
\* both are answered 200, total_spins and the entry's found_count have grown
\* by 1, not 2; and such an interleaving exists (the witness).
C14_LostUpdate ==
  \A r1, r2 \in Reqs : ReadSameRows(r1, r2) => GrownByOne(r1)

C14_Witness ==
  \E r1, r2 \in Reqs : ReadSameRows(r1, r2) /\ GrownByOne(r1)

\* Request r is a profile request answered with the profile.
Profiled(r) ==
  Answered(r, "profile") /\ resp[r].status = 200 /\ resp[r].body.kind = "profile"

Mine(u) == {c \in user_collections : c.user_id = u}

\* C15: in every profile response, also with track-result requests of the
\* same user in progress, collections.ssr and collections.sr are the numbers
\* of returned items of rarity SSR and SR, and collections.ssr +
\* collections.sr = collections.total = completion.collected = the number of
\* returned items.
C15_CountsMatchItems ==
  \A r \in Reqs :
    Profiled(r) =>
      LET b == resp[r].body
          items == b.collections.items
          of(rarity) == {i \in DOMAIN items : items[i].divine_words.rarity = rarity}
      IN /\ b.collections.ssr = Cardinality(of("SSR"))
         /\ b.collections.sr = Cardinality(of("SR"))
         /\ b.collections.ssr + b.collections.sr = b.collections.total
         /\ b.collections.total = b.completion.collected
         /\ b.completion.collected = Len(items)

\* A profile response of one SSR item for a user whose ledger a concurrent
\* track-result request has meanwhile extended by an SR word.
C15_Witness ==
  \E r \in Reqs :
    /\ Profiled(r)
    /\ resp[r].body.collections.ssr = 1 /\ resp[r].body.collections.sr = 0
    /\ Cardinality(Mine(req[r].user)) = 2
    /\ \E q \in Reqs : req[q].endpoint = "track" /\ req[q].user = req[r].user
                           /\ pc[q] \in {"lookupStats", "writeStats", "done"}
                           /\ dbOps[q].writes >= 1

\* C16: every statistics row, after overlapping requests and lost updates
\* too, has total_points = 20 * divine_count + 5 * reality_count +
\* (total_spins - divine_count - reality_count) and divine_count +
\* reality_count <= total_spins.
C16_PointsIdentity ==
  \A s \in user_statistics :
    /\ s.total_points = 20 * s.divine_count + 5 * s.reality_count
                          + (s.total_spins - s.divine_count - s.reality_count)
    /\ s.divine_count + s.reality_count <= s.total_spins

\* The row after a lost update: two spins of different types read it, both
\* wrote it.
C16_Witness ==
  \E r1, r2 \in Reqs :
    /\ r1 # r2
    /\ Answered(r1, "track") /\ resp[r1].status = 200 /\ ~loc[r1].statsError
    /\ Answered(r2, "track") /\ resp[r2].status = 200 /\ ~loc[r2].statsError
    /\ req[r1].type = "DIVINE" /\ req[r2].type = "REALITY"
    /\ loc[r1].stats # {} /\ loc[r1].stats = loc[r2].stats
    /\ \E s \in user_statistics :
         s.id = Row(loc[r1].stats).id /\ s.total_spins = Row(loc[r1].stats).total_spins + 1

\* C17: no step of a track-result request of user A creates or changes a
\* ledger entry or a statistics row of another user, under any interleaving.
C17_OtherUsersRowsKept ==
  [][\A r \in Reqs :
       (pc[r] # pc'[r] /\ req'[r].endpoint = "track" /\ req'[r].user \in Users) =>
         /\ {c \in user_collections' : c.user_id # req'[r].user}
              = {c \in user_collections : c.user_id # req'[r].user}
         /\ {s \in user_statistics' : s.user_id # req'[r].user}
              = {s \in user_statistics : s.user_id # req'[r].user}]_vars

\* User 2 has recorded a spin for the catalog word user 1 holds, and the
\* rows of user 1 are as they were.
C17_Witness ==
  \E r \in Reqs :
    /\ Answered(r, "track") /\ resp[r].status = 200 /\ req[r].user = 2
    /\ ~loc[r].ledgerError /\ ~loc[r].statsError
    /\ \E c \in Mine(2) : c.divine_word_id = 1
    /\ \E s \in user_statistics : s.user_id = 2
    /\ OneSpinLedger \subseteq user_collections
    /\ OneSpinStatistics \subseteq user_statistics

====
